---------------------------- MODULE Spec2Model ----------------------------
(***************************************************************************)
(* Model of stable_diffusion_tf/stable_diffusion.py: Text2Image.generate   *)
(* (prompt validation, context building, timestep schedule, the DDIM       *)
(* denoising loop, decoding) and its helpers timestep_embedding,           *)
(* get_model_output and get_x_prev_and_pred_x0.                            *)
(*                                                                         *)
(* The text encoder, the noise predictor (diffusion model), the decoder,   *)
(* the tokenizer and the random-normal sampler are external: a tensor that *)
(* one of them returns is an opaque value identified by the call that      *)
(* produced it, and so is what the helpers compute from such tensors       *)
(* during a run.  Applied on their own, get_model_output is modelled over  *)
(* exact rationals and get_x_prev_and_pred_x0 in IEEE-754 floating point.  *)
(***************************************************************************)
EXTENDS Integers, Sequences, FiniteSets, TLC

(***************************************************************************)
(* Bounds of the model.                                                    *)
(***************************************************************************)
\* n_steps ranges over -NegNSteps .. MaxNSteps in the schedule specification
NegNSteps == 2
MaxNSteps == 1002
\* n_steps ranges over -NegNSteps .. MaxLoopNSteps where the loop is walked
MaxLoopNSteps == 7
\* the tokenizer returns between 0 and MaxTokens token ids
MaxTokens == 79
\* number of elements of a numeric tensor
TensorLen == 2
\* batch_size ranges over 1 .. MaxBatch
MaxBatch == 2
\* timestep_embedding on its own: dim in 2 .. MaxDim, timestep in 0 .. MaxEmbedT
MaxDim == 9
MaxEmbedT == 12

(***************************************************************************)
(* Program constants.                                                      *)
(***************************************************************************)
MAX_TEXT_LEN == 77
END_OF_TEXT == 49407
START_OF_TEXT == 49406
NUM_TRAIN_TIMESTEPS == 1000
DEFAULT_DIM == 320
DEFAULT_MAX_PERIOD == 10000
IMG_HEIGHT == 1000
IMG_WIDTH == 1000

\* _TOKENS_UNCONDITIONAL: the start token followed by 76 end tokens
TOKENS_UNCONDITIONAL ==
  [i \in 1..MAX_TEXT_LEN |-> IF i = 1 THEN START_OF_TEXT ELSE END_OF_TEXT]

\* _ALPHAS_CUMPROD: 1000 decimal literals; <<m, k>> stands for m / 10^k,
\* so 0.99915 is <<99915, 5>>.  Sequence position i+1 holds table index i.
ALPHAS_CUMPROD ==
  <<
    <<99915, 5>>, <<998296, 6>>, <<9974381, 7>>, <<9965762, 7>>, <<99571025, 8>>,
    <<9948404, 7>>, <<9939665, 7>>, <<9930887, 7>>, <<9922069, 7>>, <<9913211, 7>>,
    <<9904313, 7>>, <<98953754, 8>>, <<9886398, 7>>, <<9877381, 7>>, <<9868324, 7>>,
    <<98592263, 8>>, <<98500896, 8>>, <<9840913, 7>>, <<9831696, 7>>, <<982244, 6>>,
    <<98131436, 8>>, <<9803808, 7>>, <<97944313, 8>>, <<97850156, 8>>, <<977556, 6>>,
    <<9766064, 7>>, <<97565293, 8>>, <<9746954, 7>>, <<9737339, 7>>, <<9727684, 7>>,
    <<97179896, 8>>, <<97082555, 8>>, <<96984816, 8>>, <<96886677, 8>>, <<9678814, 7>>,
    <<96689206, 8>>, <<96589875, 8>>, <<9649015, 7>>, <<96390027, 8>>, <<9628951, 7>>,
    <<9618859, 7>>, <<96087277, 8>>, <<95985574, 8>>, <<95883465, 8>>, <<9578097, 7>>,
    <<95678073, 8>>, <<95574784, 8>>, <<954711, 6>>, <<95367026, 8>>, <<9526256, 7>>,
    <<9515769, 7>>, <<95052433, 8>>, <<94946784, 8>>, <<94840735, 8>>, <<947343, 6>>,
    <<94627476, 8>>, <<9452025, 7>>, <<9441264, 7>>, <<9430464, 7>>, <<9419625, 7>>,
    <<9408747, 7>>, <<939783, 6>>, <<9386874, 7>>, <<93758786, 8>>, <<9364845, 7>>,
    <<93537724, 8>>, <<9342661, 7>>, <<9331511, 7>>, <<9320323, 7>>, <<9309096, 7>>,
    <<929783, 6>>, <<9286526, 7>>, <<9275183, 7>>, <<9263802, 7>>, <<92523825, 8>>,
    <<92409253, 8>>, <<92294294, 8>>, <<9217895, 7>>, <<92063236, 8>>, <<9194713, 7>>,
    <<9183065, 7>>, <<9171379, 7>>, <<91596556, 8>>, <<9147894, 7>>, <<9136095, 7>>,
    <<91242576, 8>>, <<9112383, 7>>, <<9100471, 7>>, <<9088522, 7>>, <<9076535, 7>>,
    <<9064511, 7>>, <<90524495, 8>>, <<9040351, 7>>, <<90282154, 8>>, <<9016043, 7>>,
    <<90038335, 8>>, <<8991587, 7>>, <<8979304, 7>>, <<8966984, 7>>, <<89546275, 8>>,
    <<89422345, 8>>, <<8929805, 7>>, <<89173394, 8>>, <<89048374, 8>>, <<88922995, 8>>,
    <<8879725, 7>>, <<8867115, 7>>, <<88544685, 8>>, <<88417864, 8>>, <<88290685, 8>>,
    <<8816315, 7>>, <<88035256, 8>>, <<8790701, 7>>, <<87778413, 8>>, <<8764946, 7>>,
    <<8752016, 7>>, <<873905, 6>>, <<87260497, 8>>, <<8713014, 7>>, <<8699944, 7>>,
    <<86868393, 8>>, <<86737, 5>>, <<8660526, 7>>, <<8647318, 7>>, <<86340755, 8>>,
    <<8620799, 7>>, <<8607488, 7>>, <<85941434, 8>>, <<8580765, 7>>, <<8567353, 7>>,
    <<8553907, 7>>, <<8540428, 7>>, <<85269153, 8>>, <<85133696, 8>>, <<84997904, 8>>,
    <<84861785, 8>>, <<8472533, 7>>, <<8458856, 7>>, <<8445145, 7>>, <<84314024, 8>>,
    <<84176266, 8>>, <<8403819, 7>>, <<8389979, 7>>, <<8376107, 7>>, <<8362203, 7>>,
    <<83482677, 8>>, <<83343, 5>>, <<8320301, 7>>, <<8306271, 7>>, <<8292209, 7>>,
    <<82781166, 8>>, <<82639927, 8>>, <<8249838, 7>>, <<82356524, 8>>, <<8221436, 7>>,
    <<82071894, 8>>, <<81929123, 8>>, <<81786054, 8>>, <<8164268, 7>>, <<8149901, 7>>,
    <<8135504, 7>>, <<81210774, 8>>, <<81066215, 8>>, <<8092136, 7>>, <<8077621, 7>>,
    <<80630773, 8>>, <<80485046, 8>>, <<8033903, 7>>, <<80192727, 8>>, <<8004614, 7>>,
    <<79899275, 8>>, <<79752123, 8>>, <<7960469, 7>>, <<7945698, 7>>, <<7930899, 7>>,
    <<79160726, 8>>, <<7901219, 7>>, <<7886338, 7>>, <<787143, 6>>, <<7856495, 7>>,
    <<7841533, 7>>, <<78265446, 8>>, <<78115296, 8>>, <<7796488, 7>>, <<77814204, 8>>,
    <<7766327, 7>>, <<7751208, 7>>, <<7736063, 7>>, <<77208924, 8>>, <<7705697, 7>>,
    <<7690476, 7>>, <<767523, 6>>, <<7659959, 7>>, <<7644664, 7>>, <<76293445, 8>>,
    <<7614, 4>>, <<7598632, 7>>, <<75832397, 8>>, <<75678235, 8>>, <<75523835, 8>>,
    <<75369203, 8>>, <<7521434, 7>>, <<75059247, 8>>, <<7490392, 7>>, <<7474837, 7>>,
    <<7459259, 7>>, <<7443659, 7>>, <<74280363, 8>>, <<7412392, 7>>, <<7396726, 7>>,
    <<7381038, 7>>, <<73653287, 8>>, <<7349598, 7>>, <<7333846, 7>>, <<73180735, 8>>,
    <<730228, 6>>, <<7286466, 7>>, <<7270631, 7>>, <<7254777, 7>>, <<72389024, 8>>,
    <<72230077, 8>>, <<7207094, 7>>, <<71911603, 8>>, <<7175208, 7>>, <<7159236, 7>>,
    <<71432453, 8>>, <<7127236, 7>>, <<71112084, 8>>, <<7095162, 7>>, <<7079098, 7>>,
    <<7063016, 7>>, <<70469165, 8>>, <<70307994, 8>>, <<7014665, 7>>, <<69985133, 8>>,
    <<6982345, 7>>, <<696616, 6>>, <<6949958, 7>>, <<69337404, 8>>, <<69175065, 8>>,
    <<69012564, 8>>, <<6884991, 7>>, <<68687093, 8>>, <<6852413, 7>>, <<68361014, 8>>,
    <<6819775, 7>>, <<6803434, 7>>, <<67870784, 8>>, <<6770708, 7>>, <<6754324, 7>>,
    <<6737926, 7>>, <<67215145, 8>>, <<670509, 6>>, <<66886514, 8>>, <<66722, 5>>,
    <<6655736, 7>>, <<66392595, 8>>, <<662277, 6>>, <<6606269, 7>>, <<65897554, 8>>,
    <<657323, 6>>, <<65566933, 8>>, <<6540145, 7>>, <<6523586, 7>>, <<6507016, 7>>,
    <<6490435, 7>>, <<64738435, 8>>, <<6457241, 7>>, <<64406294, 8>>, <<6424008, 7>>,
    <<64073765, 8>>, <<63907355, 8>>, <<63740855, 8>>, <<6357426, 7>>, <<6340758, 7>>,
    <<6324082, 7>>, <<6307397, 7>>, <<6290704, 7>>, <<6274003, 7>>, <<6257294, 7>>,
    <<62405777, 8>>, <<6223854, 7>>, <<62071234, 8>>, <<6190386, 7>>, <<61736417, 8>>,
    <<6156891, 7>>, <<61401343, 8>>, <<6123372, 7>>, <<6106603, 7>>, <<6089829, 7>>,
    <<607305, 6>>, <<6056265, 7>>, <<6039476, 7>>, <<60226816, 8>>, <<6005883, 7>>,
    <<598908, 6>>, <<59722733, 8>>, <<5955463, 7>>, <<59386486, 8>>, <<5921831, 7>>,
    <<59050107, 8>>, <<5888187, 7>>, <<5871361, 7>>, <<5854532, 7>>, <<5837701, 7>>,
    <<5820868, 7>>, <<5804033, 7>>, <<5787197, 7>>, <<5770359, 7>>, <<575352, 6>>,
    <<57366806, 8>>, <<571984, 6>>, <<5702999, 7>>, <<5686158, 7>>, <<56693166, 8>>,
    <<56524754, 8>>, <<5635635, 7>>, <<5618795, 7>>, <<56019557, 8>>, <<5585118, 7>>,
    <<5568281, 7>>, <<55514455, 8>>, <<5534612, 7>>, <<551778, 6>>, <<5500951, 7>>,
    <<5484124, 7>>, <<54673, 5>>, <<5450478, 7>>, <<54336596, 8>>, <<54168445, 8>>,
    <<54000324, 8>>, <<53832245, 8>>, <<5366421, 7>>, <<53496206, 8>>, <<5332825, 7>>,
    <<53160346, 8>>, <<5299248, 7>>, <<52824676, 8>>, <<5265692, 7>>, <<52489215, 8>>,
    <<5232157, 7>>, <<5215398, 7>>, <<51986456, 8>>, <<51818997, 8>>, <<51651603, 8>>,
    <<51484275, 8>>, <<5131702, 7>>, <<5114983, 7>>, <<5098272, 7>>, <<50815684, 8>>,
    <<5064873, 7>>, <<50481856, 8>>, <<50315064, 8>>, <<50148356, 8>>, <<4998174, 7>>,
    <<4981521, 7>>, <<49648774, 8>>, <<49482432, 8>>, <<49316183, 8>>, <<49150035, 8>>,
    <<48983985, 8>>, <<4881804, 7>>, <<486522, 6>>, <<48486462, 8>>, <<4832084, 7>>,
    <<48155323, 8>>, <<4798992, 7>>, <<47824633, 8>>, <<47659463, 8>>, <<4749441, 7>>,
    <<47329482, 8>>, <<4716468, 7>>, <<47, 2>>, <<46835446, 8>>, <<46671024, 8>>,
    <<46506736, 8>>, <<4634258, 7>>, <<46178558, 8>>, <<46014675, 8>>, <<45850933, 8>>,
    <<45687333, 8>>, <<45523876, 8>>, <<45360568, 8>>, <<45197406, 8>>, <<45034397, 8>>,
    <<44871536, 8>>, <<44708833, 8>>, <<44546285, 8>>, <<44383895, 8>>, <<44221666, 8>>,
    <<440596, 6>>, <<43897697, 8>>, <<43735963, 8>>, <<43574396, 8>>, <<43412998, 8>>,
    <<43251774, 8>>, <<43090722, 8>>, <<4292985, 7>>, <<42769152, 8>>, <<42608637, 8>>,
    <<42448303, 8>>, <<4228815, 7>>, <<42128187, 8>>, <<4196841, 7>>, <<41808826, 8>>,
    <<4164943, 7>>, <<4149023, 7>>, <<41331223, 8>>, <<41172415, 8>>, <<41013804, 8>>,
    <<40855396, 8>>, <<4069719, 7>>, <<4053919, 7>>, <<40381396, 8>>, <<4022381, 7>>,
    <<40066436, 8>>, <<39909273, 8>>, <<39752322, 8>>, <<3959559, 7>>, <<39439073, 8>>,
    <<39282778, 8>>, <<39126703, 8>>, <<3897085, 7>>, <<3881522, 7>>, <<3865982, 7>>,
    <<38504648, 8>>, <<38349706, 8>>, <<38194993, 8>>, <<38040516, 8>>, <<37886274, 8>>,
    <<37732267, 8>>, <<375785, 6>>, <<37424973, 8>>, <<37271687, 8>>, <<37118647, 8>>,
    <<36965853, 8>>, <<36813304, 8>>, <<36661002, 8>>, <<36508954, 8>>, <<36357155, 8>>,
    <<3620561, 7>>, <<36054322, 8>>, <<3590329, 7>>, <<35752517, 8>>, <<35602003, 8>>,
    <<35451752, 8>>, <<35301763, 8>>, <<3515204, 7>>, <<3500258, 7>>, <<3485339, 7>>,
    <<3470447, 7>>, <<34555823, 8>>, <<34407446, 8>>, <<34259343, 8>>, <<34111515, 8>>,
    <<33963963, 8>>, <<33816692, 8>>, <<336697, 6>>, <<3352299, 7>>, <<33376563, 8>>,
    <<3323042, 7>>, <<33084565, 8>>, <<32938993, 8>>, <<32793713, 8>>, <<3264872, 7>>,
    <<32504022, 8>>, <<32359615, 8>>, <<32215503, 8>>, <<32071686, 8>>, <<31928164, 8>>,
    <<31784943, 8>>, <<3164202, 7>>, <<314994, 6>>, <<3135708, 7>>, <<31215066, 8>>,
    <<31073356, 8>>, <<3093195, 7>>, <<30790854, 8>>, <<30650064, 8>>, <<30509588, 8>>,
    <<30369422, 8>>, <<30229566, 8>>, <<30090025, 8>>, <<299508, 6>>, <<2981189, 7>>,
    <<29673296, 8>>, <<29535022, 8>>, <<2939707, 7>>, <<29259437, 8>>, <<29122123, 8>>,
    <<28985137, 8>>, <<28848472, 8>>, <<28712133, 8>>, <<2857612, 7>>, <<28440437, 8>>,
    <<2830508, 7>>, <<28170055, 8>>, <<2803536, 7>>, <<27900997, 8>>, <<27766964, 8>>,
    <<27633268, 8>>, <<27499905, 8>>, <<2736688, 7>>, <<27234194, 8>>, <<27101842, 8>>,
    <<2696983, 7>>, <<26838157, 8>>, <<26706827, 8>>, <<26575837, 8>>, <<26445192, 8>>,
    <<26314887, 8>>, <<2618493, 7>>, <<26055318, 8>>, <<2592605, 7>>, <<25797132, 8>>,
    <<2566856, 7>>, <<2554034, 7>>, <<25412467, 8>>, <<25284946, 8>>, <<25157773, 8>>,
    <<2503096, 7>>, <<24904492, 8>>, <<24778382, 8>>, <<24652626, 8>>, <<24527225, 8>>,
    <<2440218, 7>>, <<24277493, 8>>, <<24153163, 8>>, <<24029191, 8>>, <<23905578, 8>>,
    <<23782326, 8>>, <<23659433, 8>>, <<23536903, 8>>, <<23414734, 8>>, <<23292927, 8>>,
    <<23171483, 8>>, <<23050404, 8>>, <<22929688, 8>>, <<22809339, 8>>, <<22689353, 8>>,
    <<22569734, 8>>, <<22450483, 8>>, <<22331597, 8>>, <<2221308, 7>>, <<22094932, 8>>,
    <<21977153, 8>>, <<21859743, 8>>, <<21742703, 8>>, <<21626033, 8>>, <<21509734, 8>>,
    <<21393807, 8>>, <<21278252, 8>>, <<21163069, 8>>, <<21048258, 8>>, <<20933822, 8>>,
    <<20819758, 8>>, <<2070607, 7>>, <<20592754, 8>>, <<20479813, 8>>, <<20367248, 8>>,
    <<20255059, 8>>, <<20143245, 8>>, <<20031808, 8>>, <<19920748, 8>>, <<19810064, 8>>,
    <<19699757, 8>>, <<19589828, 8>>, <<19480278, 8>>, <<19371104, 8>>, <<1926231, 7>>,
    <<19153893, 8>>, <<19045855, 8>>, <<18938197, 8>>, <<18830918, 8>>, <<18724018, 8>>,
    <<18617497, 8>>, <<18511358, 8>>, <<18405597, 8>>, <<18300217, 8>>, <<18195218, 8>>,
    <<18090598, 8>>, <<1798636, 7>>, <<17882504, 8>>, <<17779027, 8>>, <<1767593, 7>>,
    <<17573217, 8>>, <<17470883, 8>>, <<1736893, 7>>, <<1726736, 7>>, <<1716617, 7>>,
    <<17065361, 8>>, <<16964935, 8>>, <<1686489, 7>>, <<16765225, 8>>, <<16665943, 8>>,
    <<16567042, 8>>, <<16468522, 8>>, <<16370384, 8>>, <<16272627, 8>>, <<16175252, 8>>,
    <<16078258, 8>>, <<15981644, 8>>, <<15885411, 8>>, <<1578956, 7>>, <<15694089, 8>>,
    <<15599, 5>>, <<15504292, 8>>, <<15409963, 8>>, <<15316014, 8>>, <<15222447, 8>>,
    <<15129258, 8>>, <<1503645, 7>>, <<14944021, 8>>, <<14851972, 8>>, <<14760303, 8>>,
    <<14669013, 8>>, <<14578101, 8>>, <<14487568, 8>>, <<14397413, 8>>, <<14307636, 8>>,
    <<14218238, 8>>, <<14129217, 8>>, <<14040573, 8>>, <<13952307, 8>>, <<13864417, 8>>,
    <<13776903, 8>>, <<13689767, 8>>, <<13603005, 8>>, <<13516618, 8>>, <<13430607, 8>>,
    <<13344972, 8>>, <<1325971, 7>>, <<13174823, 8>>, <<1309031, 7>>, <<13006169, 8>>,
    <<12922402, 8>>, <<12839006, 8>>, <<12755983, 8>>, <<12673332, 8>>, <<12591052, 8>>,
    <<12509143, 8>>, <<12427604, 8>>, <<12346435, 8>>, <<12265636, 8>>, <<121852055, 9>>,
    <<12105144, 8>>, <<1202545, 7>>, <<11946124, 8>>, <<11867165, 8>>, <<11788572, 8>>,
    <<11710346, 8>>, <<11632485, 8>>, <<115549885, 9>>, <<11477857, 8>>, <<11401089, 8>>,
    <<11324684, 8>>, <<11248643, 8>>, <<11172963, 8>>, <<11097645, 8>>, <<110226884, 9>>,
    <<10948092, 8>>, <<10873855, 8>>, <<10799977, 8>>, <<107264586, 9>>, <<106532976, 9>>,
    <<105804935, 9>>, <<10508047, 8>>, <<10435956, 8>>, <<1036422, 7>>, <<10292839, 8>>,
    <<10221813, 8>>, <<1015114, 7>>, <<10080819, 8>>, <<100108504, 9>>, <<9941233, 8>>,
    <<98719664, 9>>, <<980305, 7>>, <<9734483, 8>>, <<9666264, 8>>, <<9598393, 8>>,
    <<95308684, 9>>, <<9463691, 8>>, <<93968585, 9>>, <<9330372, 8>>, <<92642285, 9>>,
    <<9198428, 8>>, <<9132971, 8>>, <<9067855, 8>>, <<90030804, 9>>, <<89386456, 9>>,
    <<88745505, 9>>, <<88107936, 9>>, <<8747375, 8>>, <<8684293, 8>>, <<8621547, 8>>,
    <<85591376, 9>>, <<84970616, 9>>, <<8435319, 8>>, <<837391, 7>>, <<8312833, 8>>,
    <<8252087, 8>>, <<8191671, 8>>, <<8131585, 8>>, <<8071827, 8>>, <<80123976, 9>>,
    <<7953294, 8>>, <<78945175, 9>>, <<78360654, 9>>, <<77779375, 9>>, <<7720133, 8>>,
    <<7662651, 8>>, <<7605491, 8>>, <<7548651, 8>>, <<7492131, 8>>, <<743593, 7>>,
    <<7380046, 8>>, <<73244795, 9>>, <<7269229, 8>>, <<7214294, 8>>, <<7159673, 8>>,
    <<7105365, 8>>, <<70513695, 9>>, <<6997685, 8>>, <<69443114, 9>>, <<6891247, 8>>,
    <<6838491, 8>>, <<67860425, 9>>, <<6733901, 8>>, <<66820644, 9>>, <<6630533, 8>>,
    <<6579305, 8>>, <<652838, 7>>, <<6477757, 8>>, <<6427433, 8>>, <<637741, 7>>,
    <<63276865, 9>>, <<6278259, 8>>, <<62291294, 9>>, <<61802953, 9>>, <<6131756, 8>>,
    <<608351, 7>>, <<60355574, 9>>, <<5987896, 8>>, <<59405252, 9>>, <<58934443, 9>>,
    <<5846652, 8>>, <<58001474, 9>>, <<57539295, 9>>, <<5707997, 8>>, <<56623492, 9>>,
    <<5616985, 8>>, <<5571903, 8>>, <<55271026, 9>>, <<54825824, 9>>, <<5438342, 8>>,
    <<53943794, 9>>, <<53506944, 9>>, <<5307286, 8>>, <<52641522, 9>>, <<52212927, 9>>,
    <<51787063, 9>>, <<51363923, 9>>, <<5094349, 8>>, <<50525755, 9>>, <<5011071, 8>>,
    <<4969834, 8>>, <<49288645, 9>>, <<488816, 7>>, <<48477206, 9>>, <<48075445, 9>>,
    <<4767631, 8>>, <<47279786, 9>>, <<4688587, 8>>, <<46494544, 9>>, <<46105802, 9>>,
    <<4571963, 8>>, <<4533602, 8>>, <<4495496, 8>>, <<4457644, 8>>, <<44200446, 9>>,
    <<4382697, 8>>, <<43456003, 9>>, <<43087535, 9>>, <<42721547, 9>>, <<42358037, 9>>,
    <<4199699, 8>>, <<41638397, 9>>, <<41282244, 9>>, <<40928524, 9>>, <<40577225, 9>>,
    <<40228333, 9>>, <<39881844, 9>>, <<39537743, 9>>, <<39196018, 9>>, <<38856663, 9>>,
    <<38519662, 9>>, <<38185004, 9>>, <<37852682, 9>>, <<37522685, 9>>, <<37195, 6>>,
    <<36869615, 9>>, <<36546525, 9>>, <<36225714, 9>>, <<3590717, 8>>, <<35590887, 9>>,
    <<35276853, 9>>, <<34965057, 9>>, <<34655485, 9>>, <<3434813, 8>>, <<3404298, 8>>,
    <<33740025, 9>>, <<33439253, 9>>, <<33140652, 9>>, <<32844216, 9>>, <<3254993, 8>>,
    <<32257784, 9>>, <<3196777, 8>>, <<31679876, 9>>, <<31394087, 9>>, <<31110398, 9>>,
    <<30828796, 9>>, <<30549273, 9>>, <<30271813, 9>>, <<2999641, 8>>, <<29723052, 9>>,
    <<29451728, 9>>, <<29182427, 9>>, <<2891514, 8>>, <<28649855, 9>>, <<28386563, 9>>,
    <<28125253, 9>>, <<2786591, 8>>, <<27608532, 9>>, <<27353102, 9>>, <<27099613, 9>>,
    <<26848052, 9>>, <<26598409, 9>>, <<26350675, 9>>, <<2610484, 8>>, <<2586089, 8>>,
    <<2561882, 8>>, <<25378617, 9>>, <<25140269, 9>>, <<24903767, 9>>, <<246691, 7>>,
    <<2443626, 8>>, <<24205236, 9>>, <<23976017, 9>>, <<23748592, 9>>, <<23522953, 9>>,
    <<23299087, 9>>, <<23076987, 9>>, <<22856642, 9>>, <<2263804, 8>>, <<22421172, 9>>,
    <<22206029, 9>>, <<219926, 7>>, <<21780876, 9>>, <<21570845, 9>>, <<21362498, 9>>,
    <<21155827, 9>>, <<20950818, 9>>, <<20747466, 9>>, <<20545758, 9>>, <<20345684, 9>>,
    <<20147236, 9>>, <<19950403, 9>>, <<19755175, 9>>, <<19561544, 9>>, <<19369498, 9>>,
    <<19179028, 9>>, <<18990126, 9>>, <<1880278, 8>>, <<18616982, 9>>, <<18432721, 9>>,
    <<1824999, 8>>, <<18068777, 9>>, <<17889075, 9>>, <<17710872, 9>>, <<1753416, 8>>,
    <<17358929, 9>>, <<17185168, 9>>, <<17012872, 9>>, <<16842028, 9>>, <<16672628, 9>>,
    <<16504662, 9>>, <<16338123, 9>>, <<16173, 6>>, <<16009282, 9>>, <<15846964, 9>>,
    <<15686033, 9>>, <<15526483, 9>>, <<15368304, 9>>, <<15211486, 9>>, <<150560215, 10>>,
    <<14901901, 9>>, <<14749114, 9>>, <<14597654, 9>>, <<14447511, 9>>, <<142986765, 10>>,
    <<14151142, 9>>, <<14004898, 9>>, <<13859936, 9>>, <<13716248, 9>>, <<135738235, 10>>,
    <<13432656, 9>>, <<13292736, 9>>, <<13154055, 9>>, <<13016605, 9>>, <<12880377, 9>>,
    <<12745362, 9>>, <<12611552, 9>>, <<12478939, 9>>, <<12347515, 9>>, <<1221727, 8>>,
    <<12088198, 9>>, <<119602885, 10>>, <<118335355, 10>>, <<11707929, 9>>, <<11583461, 9>>,
    <<11460125, 9>>, <<11337912, 9>>, <<11216813, 9>>, <<11096821, 9>>, <<10977928, 9>>,
    <<108601255, 10>>, <<10743406, 9>>, <<10627762, 9>>, <<105131855, 10>>, <<10399668, 9>>,
    <<10287202, 9>>, <<1017578, 8>>, <<10065395, 9>>, <<9956039, 9>>, <<9847702, 9>>,
    <<9740381, 9>>, <<96340645, 10>>, <<9528747, 9>>, <<9424419, 9>>, <<9321076, 9>>,
    <<9218709, 9>>, <<911731, 8>>, <<9016872, 9>>, <<8917389, 9>>, <<8818853, 9>>,
    <<8721256, 9>>, <<8624591, 9>>, <<8528852, 9>>, <<843403, 8>>, <<834012, 8>>,
    <<8247114, 9>>, <<8155004, 9>>, <<8063785, 9>>, <<7973449, 9>>, <<7883989, 9>>,
    <<7795398, 9>>, <<77076694, 10>>, <<76207966, 10>>, <<75347726, 10>>, <<7449591, 9>>,
    <<73652444, 10>>, <<7281727, 9>>, <<71990318, 10>>, <<7117152, 9>>, <<70360815, 10>>,
    <<69558136, 10>>, <<68763415, 10>>, <<6797659, 9>>, <<671976, 8>>, <<66426382, 10>>,
    <<65662866, 10>>, <<6490699, 9>>, <<64158696, 10>>, <<6341792, 9>>, <<626846, 8>>,
    <<61958674, 10>>, <<61240084, 10>>, <<60528764, 10>>, <<59824656, 10>>, <<59127696, 10>>,
    <<58437833, 10>>, <<57755, 7>>, <<57079145, 10>>, <<564102, 8>>, <<55748112, 10>>,
    <<55092825, 10>>, <<5444428, 9>>, <<5380241, 9>>, <<53167176, 10>>, <<5253851, 9>>,
    <<5191636, 9>>, <<5130066, 9>>, <<50691366, 10>>, <<50088423, 10>>, <<49491767, 10>>,
    <<4890135, 9>>, <<48317118, 10>>, <<4773902, 9>>, <<4716699, 9>>, <<46600983, 10>>
  >>

\* the float literal 1.0 that heads alphas_prev
ONE == <<10, 1>>

(***************************************************************************)
(* Python and numpy primitives used by generate.                           *)
(***************************************************************************)
\* Python's  a // b  (floor division), b # 0
FloorDiv(a, b) ==
  IF b > 0 THEN a \div b
  ELSE IF a >= 0 THEN -(((a) + (-b) - 1) \div (-b))
  ELSE (-a) \div (-b)

\* len(np.arange(start, stop, step)) for integers, step # 0:
\* ceil((stop - start) / step), at least 0
ArangeLen(start, stop, step) ==
  IF step > 0
    THEN IF stop > start THEN ((stop - start) + step - 1) \div step ELSE 0
    ELSE IF stop < start THEN ((start - stop) + (-step) - 1) \div (-step) ELSE 0

\* (mutant of Arange: the stop value is included when the stride reaches it)
ArangeThroughStop(start, stop, step) ==
  [i \in 1..ArangeLen(start, stop + 1, step) |-> start + (i - 1) * step]

\* np.arange(start, stop, step) as a list, step # 0
Arange(start, stop, step) ==
  [i \in 1..ArangeLen(start, stop, step) |-> start + (i - 1) * step]

\* seq[i] for a Python list and a Python index i (negative counts from the end);
\* InRange says whether the lookup succeeds (no IndexError)
InRange(seq, i) == -Len(seq) <= i /\ i < Len(seq)
PyIndex(seq, i) == IF i >= 0 THEN seq[i + 1] ELSE seq[Len(seq) + i + 1]

\* (mutant of ReversedEnumerate: index 0 is left out)
ReversedEnumerateFromOne(xs) ==
  [j \in 1..(Len(xs) - 1) |-> <<Len(xs) - j, xs[Len(xs) - j + 1]>>]

\* list(enumerate(xs))[::-1] : <<index, value>> pairs, last index first
ReversedEnumerate(xs) ==
  [j \in 1..Len(xs) |-> <<Len(xs) - j, xs[Len(xs) - j + 1]>>]

(***************************************************************************)
(* generate, lines 94-98: the timestep schedule and its coefficients.      *)
(***************************************************************************)
\* (mutant of Stride: a stride of 0 is raised to 1)
StrideAtLeastOne(n) ==
  IF FloorDiv(NUM_TRAIN_TIMESTEPS, n) = 0 THEN 1 ELSE FloorDiv(NUM_TRAIN_TIMESTEPS, n)

\* 1000 // n_steps raises ZeroDivisionError for n_steps = 0, and np.arange
\* raises ZeroDivisionError for a step of 0 (n_steps > 1000)
Stride(n) == FloorDiv(NUM_TRAIN_TIMESTEPS, n)
ScheduleRaises(n) == n = 0 \/ Stride(n) = 0

\* timesteps = list(np.arange(1, 1000, 1000 // n_steps))
Timesteps(n) == Arange(1, NUM_TRAIN_TIMESTEPS, Stride(n))

\* alphas = [_ALPHAS_CUMPROD[t] for t in timesteps]
AlphasRaise(ts) == \E i \in 1..Len(ts) : ~InRange(ALPHAS_CUMPROD, ts[i])
Alphas(ts) == [i \in 1..Len(ts) |-> PyIndex(ALPHAS_CUMPROD, ts[i])]

\* (mutant of AlphasPrev: shifted the other way, alphas[1:] + [1.0])
AlphasNext(al) ==
  (IF Len(al) = 0 THEN <<>> ELSE SubSeq(al, 2, Len(al))) \o <<ONE>>

\* alphas_prev = [1.0] + alphas[:-1]
AlphasPrev(al) ==
  <<ONE>> \o (IF Len(al) = 0 THEN <<>> ELSE SubSeq(al, 1, Len(al) - 1))

(***************************************************************************)
(* generate, lines 77-86: prompt validation and padding.                   *)
(***************************************************************************)
\* np.repeat(x[None], batch_size, axis=0): batch_size copies along axis 0
Repeat(x, n) == [b \in 1..n |-> x]

\* (mutant of PromptAccepted: a prompt of exactly 77 tokens passes)
PromptAcceptedUpTo(inp) == Len(inp) <= MAX_TEXT_LEN

\* assert len(inputs) < 77
PromptAccepted(inp) == Len(inp) < MAX_TEXT_LEN

\* phrase = inputs + [49407] * (77 - len(inputs))
PadPhrase(inp) == inp \o [i \in 1..(MAX_TEXT_LEN - Len(inp)) |-> END_OF_TEXT]

\* list(range(77))
PosIds == [i \in 1..MAX_TEXT_LEN |-> i - 1]

(***************************************************************************)
(* timestep_embedding, lines 37-44.  An entry <<"cos", t, i, half, p>>     *)
(* stands for cos(t * exp(-ln(p) * i / half)), with "sin" likewise.        *)
(***************************************************************************)
TimestepEmbedding(t, dim, max_period) ==
  LET half == FloorDiv(dim, 2)
      cosines == [i \in 1..half |-> <<"cos", t, i - 1, half, max_period>>]
      sines == [i \in 1..half |-> <<"sin", t, i - 1, half, max_period>>]
  IN  cosines \o sines

(***************************************************************************)
(* Floating-point arithmetic of get_model_output and                       *)
(* get_x_prev_and_pred_x0.  Python floats and math.sqrt are IEEE-754       *)
(* binary64; a tensor's elements are binary32 (float32, the dtype of       *)
(* tf.random.normal) or binary64 (float64).  Every operation rounds to     *)
(* nearest, ties to even, and is modelled bit for bit (normal range, no    *)
(* overflow or underflow).                                                 *)
(*                                                                         *)
(* A natural number of any size is a little-endian sequence of limbs       *)
(* (digits in base 2^15) without leading zero limbs; <<>> is 0.            *)
(***************************************************************************)
LimbBits == 15
Abs(a) == IF a < 0 THEN -a ELSE a
LimbBase == 2^15

RECURSIVE BTrim(_)
BTrim(a) ==
  IF a = <<>> THEN <<>>
  ELSE IF a[Len(a)] = 0 THEN BTrim(SubSeq(a, 1, Len(a) - 1)) ELSE a

RECURSIVE BFromInt(_)
BFromInt(n) == IF n = 0 THEN <<>> ELSE <<n % LimbBase>> \o BFromInt(n \div LimbBase)

Limb(a, i) == IF i <= Len(a) THEN a[i] ELSE 0

RECURSIVE BAddFrom(_, _, _, _)
BAddFrom(a, b, i, carry) ==
  IF i > Len(a) /\ i > Len(b)
    THEN IF carry = 0 THEN <<>> ELSE <<carry>>
    ELSE LET t == Limb(a, i) + Limb(b, i) + carry
         IN  <<t % LimbBase>> \o BAddFrom(a, b, i + 1, t \div LimbBase)
BAdd(a, b) == BAddFrom(a, b, 1, 0)

\* a - b for a >= b
RECURSIVE BSubFrom(_, _, _, _)
BSubFrom(a, b, i, borrow) ==
  IF i > Len(a) THEN <<>>
  ELSE LET t == Limb(a, i) - Limb(b, i) - borrow
       IN  IF t < 0 THEN <<t + LimbBase>> \o BSubFrom(a, b, i + 1, 1)
           ELSE <<t>> \o BSubFrom(a, b, i + 1, 0)
BSub(a, b) == BTrim(BSubFrom(a, b, 1, 0))

\* -1, 0 or 1 as a < b, a = b or a > b
RECURSIVE BCmpFrom(_, _, _)
BCmpFrom(a, b, i) ==
  IF i = 0 THEN 0
  ELSE IF a[i] < b[i] THEN -1
  ELSE IF a[i] > b[i] THEN 1
  ELSE BCmpFrom(a, b, i - 1)
BCmp(a, b) ==
  IF Len(a) < Len(b) THEN -1
  ELSE IF Len(a) > Len(b) THEN 1
  ELSE BCmpFrom(a, b, Len(a))

\* a * k for 0 <= k <= 2^15
RECURSIVE BMulSmallFrom(_, _, _, _)
BMulSmallFrom(a, k, i, carry) ==
  IF i > Len(a)
    THEN IF carry = 0 THEN <<>> ELSE <<carry>>
    ELSE LET t == a[i] * k + carry
         IN  <<t % LimbBase>> \o BMulSmallFrom(a, k, i + 1, t \div LimbBase)
BMulSmall(a, k) == IF k = 0 THEN <<>> ELSE BMulSmallFrom(a, k, 1, 0)

BShlLimbs(a, n) == IF a = <<>> THEN <<>> ELSE [i \in 1..n |-> 0] \o a

RECURSIVE BMul(_, _)
BMul(a, b) ==
  IF b = <<>> THEN <<>>
  ELSE BAdd(BMulSmall(a, Head(b)), BShlLimbs(BMul(a, Tail(b)), 1))

\* a * 2^n and floor(a / 2^n)
BShl(a, n) == BShlLimbs(BMulSmall(a, 2^(n % LimbBits)), n \div LimbBits)
BShr(a, n) ==
  LET drop == n \div LimbBits
      r == n % LimbBits
      hi == IF drop >= Len(a) THEN <<>> ELSE SubSeq(a, drop + 1, Len(a))
  IN  BTrim([i \in 1..Len(hi) |->
               (hi[i] \div 2^r) + (Limb(hi, i + 1) % 2^r) * 2^(LimbBits - r)])

\* bit i of a (bit 0 is the lowest), and whether the n lowest bits are all 0
BBit(a, i) == (Limb(a, i \div LimbBits + 1) \div 2^(i % LimbBits)) % 2
BLowZero(a, n) == BShl(BShr(a, n), n) = a

RECURSIVE IntBitLen(_)
IntBitLen(n) == IF n = 0 THEN 0 ELSE 1 + IntBitLen(n \div 2)
BBitLen(a) == IF a = <<>> THEN 0 ELSE LimbBits * (Len(a) - 1) + IntBitLen(a[Len(a)])

RECURSIVE BPow10(_)
BPow10(k) == IF k = 0 THEN <<1>> ELSE BMulSmall(BPow10(k - 1), 10)

\* A floating-point value is [s, m, e, p]: (-1)^s * m * 2^e held with p
\* significant bits, 2^(p-1) <= m < 2^p; p is 53 for a Python float or a
\* float64 element and 24 for a float32 element.  A zero has m = <<>> (a zero
\* of either sign: -0.0 == 0.0).
BINARY64 == 53
BINARY32 == 24
FZero(p) == [s |-> 0, m |-> <<>>, e |-> 0, p |-> p]
IsZero(x) == x.m = <<>>

\* (-1)^s * n * 2^e, n > 0, plus a nonzero amount below one unit of n when
\* sticky: rounded to the nearest value of p bits, ties to even
FRound(s, n, e, sticky, p) ==
  LET len == BBitLen(n)
  IN  IF len <= p
        THEN [s |-> s, m |-> BShl(n, p - len), e |-> e - (p - len), p |-> p]
        ELSE LET d == len - p
                 kept == BShr(n, d)
                 half == BBit(n, d - 1) = 1
                 below == sticky \/ ~BLowZero(n, d - 1)
                 up == half /\ (below \/ BBit(kept, 0) = 1)
                 m1 == IF up THEN BAdd(kept, <<1>>) ELSE kept
             IN  IF BBitLen(m1) > p
                   THEN [s |-> s, m |-> BShr(m1, 1), e |-> e + d + 1, p |-> p]
                   ELSE [s |-> s, m |-> m1, e |-> e + d, p |-> p]

\* One more quotient bit of r / d: st is <<quotient so far, remainder>>
DivStep(st, d) ==
  LET r2 == BShl(st[2], 1)
  IN  IF BCmp(r2, d) >= 0
        THEN <<BAdd(BShl(st[1], 1), <<1>>), BSub(r2, d)>>
        ELSE <<BShl(st[1], 1), r2>>

\* n more quotient bits, the first half of them and then the rest; once the
\* remainder is 0 the rest are 0
RECURSIVE DivBits(_, _, _)
DivBits(st, d, n) ==
  IF n = 0 THEN st
  ELSE IF n = 1 THEN DivStep(st, d)
  ELSE LET h == n \div 2
           mid == DivBits(st, d, h)
       IN  IF mid[2] = <<>> THEN <<BShl(mid[1], n - h), <<>>>>
           ELSE DivBits(mid, d, n - h)

\* (-1)^s * (n / d) * 2^e for naturals n, d > 0, correctly rounded to p bits
FQuot(s, n, d, e, p) ==
  LET ln == BBitLen(n)
      ld == BBitLen(d)
      n1 == IF ld > ln THEN BShl(n, ld - ln) ELSE n
      d1 == IF ln > ld THEN BShl(d, ln - ld) ELSE d
      e1 == e - (IF ld > ln THEN ld - ln ELSE 0) + (IF ln > ld THEN ln - ld ELSE 0)
      first == BCmp(n1, d1) >= 0
      qr == DivBits(IF first THEN <<(<<1>>), BSub(n1, d1)>> ELSE <<(<<>>), n1>>,
                    d1, p + 2)
  IN  FRound(s, qr[1], e1 - (p + 2), qr[2] # <<>>, p)

\* Python's floats: an int converted, a decimal literal m / 10^k, and the
\* quotient n / d of two positive ints
FInt(n) ==
  IF n = 0 THEN FZero(BINARY64)
  ELSE FRound(IF n < 0 THEN 1 ELSE 0, BFromInt(Abs(n)), 0, FALSE, BINARY64)
FDec(m, k) ==
  IF m = 0 THEN FZero(BINARY64) ELSE FQuot(0, BFromInt(m), BPow10(k), 0, BINARY64)
FRatio(n, d) == FQuot(0, BFromInt(n), BFromInt(d), 0, BINARY64)

\* x converted to p bits (a Python float becoming an element of a tensor, or
\* the scalar operand of a tensor operation taking the tensor's dtype)
FCast(x, p) == IF IsZero(x) THEN FZero(p) ELSE FRound(x.s, x.m, x.e, FALSE, p)

\* the operations on two values of the same precision
FNeg(x) == IF IsZero(x) THEN x ELSE [x EXCEPT !.s = 1 - x.s]

FMul(x, y) ==
  IF IsZero(x) \/ IsZero(y) THEN FZero(x.p)
  ELSE FRound((x.s + y.s) % 2, BMul(x.m, y.m), x.e + y.e, FALSE, x.p)

\* x / y, y # 0
FDiv(x, y) ==
  IF IsZero(x) THEN x ELSE FQuot((x.s + y.s) % 2, x.m, y.m, x.e - y.e, x.p)

FAdd(x, y) ==
  IF IsZero(x) THEN y
  ELSE IF IsZero(y) THEN x
  ELSE LET e == IF x.e < y.e THEN x.e ELSE y.e
           a == BShl(x.m, x.e - e)
           b == BShl(y.m, y.e - e)
           c == BCmp(a, b)
       IN  IF x.s = y.s THEN FRound(x.s, BAdd(a, b), e, FALSE, x.p)
           ELSE IF c = 0 THEN FZero(x.p)
           ELSE IF c > 0 THEN FRound(x.s, BSub(a, b), e, FALSE, x.p)
           ELSE FRound(y.s, BSub(b, a), e, FALSE, x.p)

FSub(x, y) == FAdd(x, FNeg(y))

\* One more bit of the integer square root of r, from bit pair i of r:
\* st is <<root so far, remainder>>
SqrtStep(r, st, i) ==
  LET rem2 == BAdd(BShl(st[2], 2), BFromInt(2 * BBit(r, 2 * i + 1) + BBit(r, 2 * i)))
      trial == BAdd(BShl(st[1], 2), <<1>>)
  IN  IF BCmp(rem2, trial) >= 0
        THEN <<BAdd(BShl(st[1], 1), <<1>>), BSub(rem2, trial)>>
        ELSE <<BShl(st[1], 1), rem2>>

\* the root bits of pairs hi down to lo, the upper half of them and then the
\* rest; once the remainder is 0 and no lower bit of r is set the rest are 0
RECURSIVE SqrtBits(_, _, _, _)
SqrtBits(r, st, hi, lo) ==
  IF hi = lo THEN SqrtStep(r, st, hi)
  ELSE LET mid == (hi + lo + 1) \div 2
           upper == SqrtBits(r, st, hi, mid)
       IN  IF upper[2] = <<>> /\ BLowZero(r, 2 * mid)
             THEN <<BShl(upper[1], mid - lo), <<>>>>
             ELSE SqrtBits(r, upper, mid - 1, lo)

\* math.sqrt(x), x >= 0: correctly rounded
FSqrt(x) ==
  IF IsZero(x) THEN x
  ELSE LET k == IF (x.e - (x.p + 3)) % 2 = 0 THEN x.p + 3 ELSE x.p + 4
           r == BShl(x.m, k)
           sr == SqrtBits(r, <<(<<>>), (<<>>)>>, x.p + 1, 0)
       IN  FRound(0, sr[1], (x.e - k) \div 2, sr[2] # <<>>, x.p)

\* element-wise tensor arithmetic; a Python float operand c takes the dtype
\* of the tensor
FTSub(x, y) == [k \in 1..Len(x) |-> FSub(x[k], y[k])]
FTAdd(x, y) == [k \in 1..Len(x) |-> FAdd(x[k], y[k])]
FTScale(c, x) == [k \in 1..Len(x) |-> FMul(FCast(c, x[k].p), x[k])]
FTDivide(x, c) == [k \in 1..Len(x) |-> FDiv(x[k], FCast(c, x[k].p))]

\* (mutant of GuidedEstimate: the extrapolation starts from the conditional
\* estimate)
GuidedFromConditional(unconditional, conditional, scale) ==
  FTAdd(conditional, FTScale(scale, FTSub(conditional, unconditional)))

\* get_model_output, lines 56-58:
\* unconditional_latent + unconditional_guidance_scale * (latent - unconditional_latent)
\* on two tensors of one dtype and a Python float
GuidedEstimate(unconditional, conditional, scale) ==
  FTAdd(unconditional, FTScale(scale, FTSub(conditional, unconditional)))

\* (mutant of GetXPrevAndPredX0: a_prev is used without its square root)
GetXPrevNoSqrt(x, et, idx, at, aprev, temp) ==
  LET sigma_t == FInt(0)
      sqrt_one_minus_at == FSqrt(FSub(FInt(1), at))
      predx0 == FTDivide(FTSub(x, FTScale(sqrt_one_minus_at, et)), FSqrt(at))
      dir_xt == FTScale(FSqrt(FSub(FSub(FInt(1), aprev), FMul(sigma_t, sigma_t))), et)
      xprev == FTAdd(FTScale(aprev, predx0), dir_xt)
  IN  [x_prev |-> xprev, pred_x0 |-> predx0]

\* get_x_prev_and_pred_x0, lines 60-69: x and e_t are tensors of one dtype,
\* a_t and a_prev Python floats.  Line 67 draws a random-normal sample of
\* x's shape (the actions that apply the helper log that sampler call);
\* sigma_t is 0, so noise is zero whatever is sampled, and noise is not
\* added to x_prev.
GetXPrevAndPredX0(x, et, idx, at, aprev, temp) ==
  LET sigma_t == FInt(0)
      sqrt_one_minus_at == FSqrt(FSub(FInt(1), at))
      predx0 == FTDivide(FTSub(x, FTScale(sqrt_one_minus_at, et)), FSqrt(at))
      dir_xt == FTScale(FSqrt(FSub(FSub(FInt(1), aprev), FMul(sigma_t, sigma_t))), et)
      xprev == FTAdd(FTScale(FSqrt(aprev), predx0), dir_xt)
  IN  [x_prev |-> xprev, pred_x0 |-> predx0]

(***************************************************************************)
(* Tensors returned by the external collaborators are opaque: each is      *)
(* named by the call that produced it (its position in the call log) and   *)
(* by which output of that call it is.                                     *)
(***************************************************************************)
Tensor(by, call, out) == [by |-> by, call |-> call, out |-> out]
NoTensor == Tensor("none", 0, "none")

\* the shape of the initial latent: (batch_size, n_h, n_w, 4), lines 74-75, 100
LatentShape(batch) ==
  <<batch, FloorDiv(IMG_HEIGHT, 8), FloorDiv(IMG_WIDTH, 8), 4>>

\* (mutant of CoefficientPair: alpha_prev is read one position early)
CoefficientPairShifted(al, alp, idx) == <<PyIndex(al, idx), PyIndex(alp, idx - 1)>>

\* a_t, a_prev = alphas[index], alphas_prev[index]
CoefficientPair(al, alp, idx) == <<PyIndex(al, idx), PyIndex(alp, idx)>>

\* (mutant of CarriedLatent: the predicted clean latent is carried forward)
CarriedPredX0(xprev, predx0, et) == predx0

\* latent = x_prev  (line 116): what the step hands to the next iteration
CarriedLatent(xprev, predx0, et) == xprev

VARIABLES
  pc,                     \* position in generate
  inputs,                 \* tokenizer.encode(prompt)
  n_steps,                \* argument n_steps
  unconditional_guidance_scale,
  temperature,
  batch_size,             \* self.batch_size
  phrase, pos_ids,
  context, unconditional_context,
  timesteps, alphas, alphas_prev,
  latent,                 \* generate's latent
  todo,                   \* what is left of list(enumerate(timesteps))[::-1]
  index, timestep,        \* loop variables
  t_emb,                  \* get_model_output: the repeated embedding
  unconditional_call,     \* inputs of the first predict_on_batch of the step
  conditional_call,       \* inputs of the second predict_on_batch of the step
  unconditional_latent, conditional_latent, e_t,
  a_t, a_prev, x_prev, pred_x0,
  entered,                \* the latent with which the current step was entered
  decoded, image,
  calls,                  \* log of calls that produce tensors, in order
  error,                  \* the exception generate raised, "" for none
  fn                      \* a helper applied on its own: name, arguments, result

promptVars == <<inputs, n_steps, unconditional_guidance_scale, temperature, batch_size>>
contextVars == <<phrase, pos_ids, context, unconditional_context>>
scheduleVars == <<timesteps, alphas, alphas_prev>>
outputVars == <<unconditional_call, conditional_call, unconditional_latent,
                conditional_latent, e_t, t_emb>>
stepVars == <<a_t, a_prev, x_prev, pred_x0, entered>>
loopVars == <<todo, index, timestep>>
vars == <<pc, promptVars, contextVars, scheduleVars, latent, loopVars, outputVars,
          stepVars, decoded, image, calls, error, fn>>

NoCall == [name |-> "none"]
NoArgs == [latent |-> NoTensor, t_emb |-> <<>>, context |-> NoTensor]

\* the token lists the tokenizer may return: any length up to MaxTokens
TokenLists == {[i \in 1..n |-> 320] : n \in 0..MaxTokens}
GuidanceScales == {FRatio(15, 2), FInt(1)}

\* generate(prompt, n_steps, unconditional_guidance_scale, temperature) is
\* entered on a constructed Text2Image; inputs is what the tokenizer returns
InitRun(tokenLists, nStepsSet, scales, batches) ==
  /\ pc = "start"
  /\ inputs \in tokenLists
  /\ n_steps \in nStepsSet
  /\ unconditional_guidance_scale \in scales
  /\ temperature = 1
  /\ batch_size \in batches
  /\ phrase = <<>> /\ pos_ids = <<>>
  /\ context = NoTensor /\ unconditional_context = NoTensor
  /\ timesteps = <<>> /\ alphas = <<>> /\ alphas_prev = <<>>
  /\ latent = NoTensor
  /\ todo = <<>> /\ index = -1 /\ timestep = -1
  /\ t_emb = <<>>
  /\ unconditional_call = NoArgs /\ conditional_call = NoArgs
  /\ unconditional_latent = NoTensor /\ conditional_latent = NoTensor
  /\ e_t = NoTensor
  /\ a_t = <<0, 0>> /\ a_prev = <<0, 0>>
  /\ x_prev = NoTensor /\ pred_x0 = NoTensor /\ entered = NoTensor
  /\ decoded = NoTensor /\ image = NoTensor
  /\ calls = <<>>
  /\ error = ""

Init ==
  /\ InitRun(TokenLists, -NegNSteps..MaxLoopNSteps, GuidanceScales, 1..MaxBatch)
  /\ fn = NoCall

Logged(name, arg) == Append(calls, [fn |-> name, index |-> index, arg |-> arg])

\* lines 77-86: the assert, the padded phrase and the position ids
Validate ==
  /\ pc = "start"
  /\ IF PromptAccepted(inputs)
       THEN /\ phrase' = Repeat(PadPhrase(inputs), batch_size)
            /\ pos_ids' = Repeat(PosIds, batch_size)
            /\ pc' = "context"
            /\ error' = error
       ELSE /\ pc' = "raised"
            /\ error' = "AssertionError"
            /\ UNCHANGED <<phrase, pos_ids>>
  /\ UNCHANGED <<promptVars, context, unconditional_context, scheduleVars, latent,
                 loopVars, outputVars, stepVars, decoded, image, calls, fn>>

\* line 88: context = self.text_encoder.predict_on_batch([phrase, pos_ids])
EncodeContext ==
  /\ pc = "context"
  /\ calls' = Logged("text_encoder", phrase)
  /\ context' = Tensor("text_encoder", Len(calls) + 1, "context")
  /\ pc' = "unconditional_context"
  /\ UNCHANGED <<promptVars, phrase, pos_ids, unconditional_context, scheduleVars,
                 latent, loopVars, outputVars, stepVars, decoded, image, error, fn>>

\* lines 90-92: the unconditional context, from self.tokens_unconditional
EncodeUnconditional ==
  /\ pc = "unconditional_context"
  /\ calls' = Logged("text_encoder", Repeat(TOKENS_UNCONDITIONAL, batch_size))
  /\ unconditional_context' = Tensor("text_encoder", Len(calls) + 1, "context")
  /\ pc' = "schedule"
  /\ UNCHANGED <<promptVars, phrase, pos_ids, context, scheduleVars, latent,
                 loopVars, outputVars, stepVars, decoded, image, error, fn>>

\* lines 94-102: timesteps, alphas, alphas_prev, the initial latent and the
\* reversed enumeration the loop walks
BuildSchedule ==
  /\ pc = "schedule"
  /\ IF ScheduleRaises(n_steps)
       THEN /\ pc' = "raised"
            /\ error' = "ZeroDivisionError"
            /\ UNCHANGED <<scheduleVars, latent, todo, calls>>
       ELSE IF AlphasRaise(Timesteps(n_steps))
       THEN /\ pc' = "raised"
            /\ error' = "IndexError"
            /\ timesteps' = Timesteps(n_steps)
            /\ UNCHANGED <<alphas, alphas_prev, latent, todo, calls>>
       ELSE /\ timesteps' = Timesteps(n_steps)
            /\ alphas' = Alphas(timesteps')
            /\ alphas_prev' = AlphasPrev(alphas')
            /\ calls' = Logged("random_normal", LatentShape(batch_size))
            /\ latent' = Tensor("random_normal", Len(calls) + 1, "sample")
            /\ todo' = ReversedEnumerate(timesteps')
            /\ pc' = "loop"
            /\ error' = error
  /\ UNCHANGED <<promptVars, contextVars, index, timestep, outputVars, stepVars,
                 decoded, image, fn>>

\* lines 103-105 and get_model_output, lines 49-54: the embedding of the step's timestep and the
\* first noise-predictor call, on the unconditional context
PredictUnconditional ==
  /\ pc = "loop"
  /\ todo # <<>>
  /\ index' = Head(todo)[1]
  /\ timestep' = Head(todo)[2]
  /\ entered' = latent
  /\ t_emb' = Repeat(TimestepEmbedding(timestep', DEFAULT_DIM, DEFAULT_MAX_PERIOD),
                     batch_size)
  /\ unconditional_call' =
       [latent |-> latent, t_emb |-> t_emb', context |-> unconditional_context]
  /\ calls' = Append(calls, [fn |-> "diffusion_model", index |-> index',
                              arg |-> latent])
  /\ unconditional_latent' = Tensor("diffusion_model", Len(calls) + 1, "noise")
  /\ pc' = "conditional"
  /\ UNCHANGED <<promptVars, contextVars, scheduleVars, latent, todo,
                 conditional_call, conditional_latent, e_t,
                 a_t, a_prev, x_prev, pred_x0, decoded, image, error, fn>>

\* get_model_output, lines 55-58: the second noise-predictor call, on the
\* prompt's context, and the guided combination of the two estimates
PredictConditional ==
  /\ pc = "conditional"
  /\ conditional_call' = [latent |-> latent, t_emb |-> t_emb, context |-> context]
  /\ conditional_latent' = Tensor("diffusion_model", Len(calls) + 1, "noise")
  /\ e_t' = Tensor("get_model_output", Len(calls) + 2, "guided")
  /\ calls' = calls \o
       <<[fn |-> "diffusion_model", index |-> index, arg |-> latent],
         [fn |-> "get_model_output", index |-> index,
          arg |-> <<unconditional_latent, conditional_latent'>>]>>
  /\ pc' = "step"
  /\ UNCHANGED <<promptVars, contextVars, scheduleVars, latent, loopVars, t_emb,
                 unconditional_call, unconditional_latent, stepVars,
                 decoded, image, error, fn>>

\* lines 112-116: the step's coefficients, the DDIM step (whose line 67 calls
\* the random-normal sampler on the latent's shape), latent = x_prev
DenoiseStep ==
  /\ pc = "step"
  /\ a_t' = CoefficientPair(alphas, alphas_prev, index)[1]
  /\ a_prev' = CoefficientPair(alphas, alphas_prev, index)[2]
  /\ calls' = calls \o
       <<[fn |-> "random_normal", index |-> index, arg |-> LatentShape(batch_size)],
         [fn |-> "get_x_prev_and_pred_x0", index |-> index, arg |-> <<latent, e_t>>]>>
  /\ x_prev' = Tensor("get_x_prev_and_pred_x0", Len(calls) + 2, "x_prev")
  /\ pred_x0' = Tensor("get_x_prev_and_pred_x0", Len(calls) + 2, "pred_x0")
  /\ latent' = CarriedLatent(x_prev', pred_x0', e_t)
  /\ todo' = Tail(todo)
  /\ pc' = "loop"
  /\ UNCHANGED <<promptVars, contextVars, scheduleVars, index, timestep, outputVars,
                 entered, decoded, image, error, fn>>

\* lines 118-120: decode the final latent, rescale to [0, 255], clip, uint8
Decode ==
  /\ pc = "loop"
  /\ todo = <<>>
  /\ calls' = Logged("decoder", latent)
  /\ decoded' = Tensor("decoder", Len(calls) + 1, "decoded")
  /\ image' = Tensor("uint8(clip((decoded + 1) / 2 * 255, 0, 255))", Len(calls) + 1, "image")
  /\ pc' = "done"
  /\ UNCHANGED <<promptVars, contextVars, scheduleVars, latent, loopVars, outputVars,
                 stepVars, error, fn>>

Next ==
  \/ Validate
  \/ EncodeContext
  \/ EncodeUnconditional
  \/ BuildSchedule
  \/ PredictUnconditional
  \/ PredictConditional
  \/ DenoiseStep
  \/ Decode

Spec == Init /\ [][Next]_vars

(***************************************************************************)
(* The schedule on its own: every n_steps in -NegNSteps .. MaxNSteps, for  *)
(* one accepted prompt, followed up to the start of the denoising loop.    *)
(***************************************************************************)
InitSchedule ==
  /\ InitRun({<<320>>}, -NegNSteps..MaxNSteps, {FRatio(15, 2)}, {1})
  /\ fn = NoCall

NextSchedule ==
  \/ Validate
  \/ EncodeContext
  \/ EncodeUnconditional
  \/ BuildSchedule

SpecSchedule == InitSchedule /\ [][NextSchedule]_vars

\* generate is past line 102: the schedule was built or building it raised
PastSchedule ==
  \/ pc \in {"loop", "conditional", "step", "done"}
  \/ error \in {"ZeroDivisionError", "IndexError"}

\* C1: for every n_steps in [1,1000] the schedule is built without an error,
\* the timesteps in processing order (the reversed enumeration) are strictly
\* decreasing, each lies in [1,1000) and each is a valid index of the
\* 1000-entry alpha table.  Checked under SpecSchedule.
C1_ScheduleDecreasingInRange ==
  (PastSchedule /\ n_steps \in 1..1000) =>
    /\ pc = "loop" /\ error = ""
    /\ Len(ALPHAS_CUMPROD) = 1000
    /\ Len(todo) = Len(timesteps)
    /\ \A j \in 1..Len(todo) :
         /\ todo[j][2] = timesteps[todo[j][1] + 1]
         /\ todo[j][2] >= 1 /\ todo[j][2] < 1000
         /\ InRange(ALPHAS_CUMPROD, todo[j][2])
         /\ j < Len(todo) => todo[j][2] > todo[j + 1][2]

\* n_steps = 1000: the stride is 1 and the walk starts at timestep 999
C1_Witness ==
  /\ pc = "loop" /\ n_steps = 1000 /\ Stride(n_steps) = 1
  /\ Len(todo) = 999 /\ todo[1] = <<998, 999>> /\ todo[999] = <<0, 1>>

\* C2 (as claimed): for every n_steps in [1,1000] the timestep list has
\* exactly n_steps entries.  Checked under SpecSchedule.
C2_ScheduleHasNStepsEntries ==
  (pc = "loop" /\ n_steps \in 1..1000) => Len(timesteps) = n_steps

\* C8 (as claimed): for n_steps > 1000 the stride is 1 and a schedule with
\* fewer than n_steps entries is produced, the run proceeding to the loop.
C8_StrideCollapsesToOne ==
  (PastSchedule /\ n_steps > 1000) =>
    /\ Stride(n_steps) = 1
    /\ pc = "loop" /\ error = ""
    /\ Len(timesteps) > 0 /\ Len(timesteps) < n_steps

\* C8 (amended): for n_steps > 1000 the stride 1000 // n_steps is 0, building
\* the schedule raises, no schedule is produced and neither the noise
\* predictor nor the decoder has been called.  Checked under SpecSchedule.
C8_StrideZeroRaises ==
  (PastSchedule /\ n_steps > 1000) =>
    /\ Stride(n_steps) = 0
    /\ pc = "raised" /\ error = "ZeroDivisionError"
    /\ timesteps = <<>> /\ alphas = <<>> /\ todo = <<>>
    /\ \A i \in 1..Len(calls) : calls[i].fn = "text_encoder"

C8_Witness ==
  /\ n_steps = 1001 /\ pc = "raised" /\ error = "ZeroDivisionError"
  /\ Len(calls) = 2

(***************************************************************************)
(* Claims about a run of generate, checked under Spec.                     *)
(***************************************************************************)
\* the schedule was built and the loop entered (possibly with no step left)
InLoop == pc \in {"loop", "conditional", "step", "done"}
\* a DDIM step has been taken and a_t, a_prev, x_prev, pred_x0 are its values
StepTaken == pc \in {"loop", "done"} /\ Len(todo) < Len(timesteps)
\* exactly one DDIM step has been taken: the first processed step
FirstStepTaken == pc = "loop" /\ Len(todo) = Len(timesteps) - 1 /\ Len(timesteps) > 0
\* every DDIM step has been taken: the last processed step was the latest
LastStepTaken == pc \in {"loop", "done"} /\ todo = <<>> /\ Len(timesteps) > 0

\* the positions of the calls of fn in the log
CallsOf(name) == {i \in 1..Len(calls) : calls[i].fn = name}

\* C3 (as claimed): the alpha_prev passed to the DDIM step of the first
\* processed step (the first iteration of the loop) is exactly 1.0.
C3_FirstStepAlphaPrevIsOne == FirstStepTaken => a_prev = ONE

\* C3 (amended): the alpha_prev passed to the DDIM step is exactly 1.0 in the
\* last iteration of the loop (schedule index 0); in the first iteration of a
\* schedule with more than one entry it is the alpha of the next smaller
\* timestep, alphas[len - 2], which is not 1.0.
C3_LastStepAlphaPrevIsOne ==
  /\ LastStepTaken => (index = 0 /\ a_prev = ONE)
  /\ (FirstStepTaken /\ Len(timesteps) > 1) =>
       /\ index = Len(timesteps) - 1
       /\ a_prev = PyIndex(ALPHAS_CUMPROD, timesteps[Len(timesteps) - 1])
       /\ a_prev # ONE

\* an 8-entry schedule walked to its end
C3_Witness ==
  /\ pc = "loop" /\ todo = <<>> /\ Len(timesteps) = 8
  /\ index = 0 /\ timestep = 1 /\ a_prev = ONE /\ a_t = <<998296, 6>>

\* C4: for a non-empty schedule alphas[i] is the table entry of timesteps[i],
\* alphas_prev is as long as alphas, starts with 1.0 and continues with
\* alphas shifted by one, and the iteration for schedule index i uses the
\* pair (alphas[i], alphas_prev[i]).
C4_AlphasPrevAligned ==
  (InLoop /\ Len(timesteps) > 0) =>
    /\ Len(alphas) = Len(timesteps)
    /\ Len(alphas_prev) = Len(alphas)
    /\ \A i \in 1..Len(timesteps) :
         /\ alphas[i] = ALPHAS_CUMPROD[timesteps[i] + 1]
         /\ i < Len(timesteps) => timesteps[i] < timesteps[i + 1]
    /\ alphas_prev[1] = ONE
    /\ \A i \in 2..Len(alphas) : alphas_prev[i] = alphas[i - 1]
    /\ StepTaken => (a_t = alphas[index + 1] /\ a_prev = alphas_prev[index + 1])

\* a step in the middle of an 8-entry schedule
C4_Witness ==
  /\ pc = "loop" /\ Len(timesteps) = 8 /\ index = 3 /\ Len(todo) = 3
  /\ a_t = alphas[4] /\ a_prev = alphas[3] /\ a_prev # ONE /\ a_t # a_prev

\* C5: a prompt is accepted exactly when the tokenizer returned fewer than
\* 77 ids; an accepted prompt is padded with end-of-text ids to exactly 77
\* ids, and a rejected one raises before any model is called.
C5_PromptAcceptedBelow77 ==
  pc # "start" =>
    IF Len(inputs) < 77
      THEN /\ error # "AssertionError"
           /\ Len(phrase) = batch_size
           /\ \A b \in 1..batch_size :
                /\ Len(phrase[b]) = 77
                /\ \A i \in 1..77 :
                     phrase[b][i] = IF i <= Len(inputs) THEN inputs[i] ELSE 49407
      ELSE /\ pc = "raised" /\ error = "AssertionError"
           /\ calls = <<>>
           /\ phrase = <<>> /\ context = NoTensor /\ decoded = NoTensor

\* a prompt of 76 tokens went through to the end of the run
C5_Witness ==
  /\ Len(inputs) = 76 /\ pc = "done" /\ Len(phrase[1]) = 77
  /\ phrase[1][76] = 320 /\ phrase[1][77] = 49407

\* C6: in a run that returns, the text encoder was called exactly twice and
\* before any noise-predictor call, the noise predictor exactly twice for
\* each schedule entry, and the decoder exactly once, as the last call.
C6_CallCounts ==
  pc = "done" =>
    /\ Cardinality(CallsOf("text_encoder")) = 2
    /\ \A i \in CallsOf("text_encoder") : \A j \in CallsOf("diffusion_model") : i < j
    /\ Cardinality(CallsOf("diffusion_model")) = 2 * Len(timesteps)
    /\ \A k \in 0..(Len(timesteps) - 1) :
         Cardinality({j \in CallsOf("diffusion_model") : calls[j].index = k}) = 2
    /\ Cardinality(CallsOf("get_x_prev_and_pred_x0")) = Len(timesteps)
    /\ CallsOf("decoder") = {Len(calls)}

\* n_steps = 7 gives 8 schedule entries: 16 noise-predictor calls
C6_Witness ==
  /\ pc = "done" /\ n_steps = 7 /\ Len(timesteps) = 8
  /\ Cardinality(CallsOf("diffusion_model")) = 16
  /\ Cardinality(CallsOf("text_encoder")) = 2

\* C10: the two noise-predictor calls of a step receive the latent with which
\* the step was entered and the same timestep embedding; the latent after the
\* step, which the next step or the decoder receives, is the x_prev of that
\* step's DDIM step, not its pred_x0 and not a noise-predictor output.
C10_LatentCarriedIsXPrev ==
  /\ pc \in {"conditional", "step"} =>
       /\ unconditional_call.latent = latent
       /\ unconditional_call.latent = entered
       /\ unconditional_call.context = unconditional_context
       /\ unconditional_call.t_emb =
            Repeat(TimestepEmbedding(timestep, 320, 10000), batch_size)
       /\ Len(todo) < Len(timesteps) => unconditional_call.latent = x_prev
  /\ pc = "step" =>
       /\ conditional_call.latent = unconditional_call.latent
       /\ conditional_call.t_emb = unconditional_call.t_emb
       /\ conditional_call.context = context
       /\ latent = entered
  /\ StepTaken =>
       /\ latent = x_prev
       /\ latent \notin {pred_x0, e_t, unconditional_latent, conditional_latent, entered}
       /\ calls[Len(calls) - (IF pc = "done" THEN 1 ELSE 0)] =
            [fn |-> "get_x_prev_and_pred_x0", index |-> index, arg |-> <<entered, e_t>>]
  /\ (pc = "done" /\ Len(timesteps) > 0) => calls[Len(calls)].arg = x_prev

\* the second step of a run has just called the noise predictor on the first
\* step's x_prev
C10_Witness ==
  /\ pc = "step" /\ Len(timesteps) = 3 /\ index = 1
  /\ unconditional_call.latent = x_prev /\ conditional_call.latent = x_prev
  /\ x_prev # pred_x0

(***************************************************************************)
(* The numeric helpers on their own: a helper is applied to arguments      *)
(* drawn from bounded sets, on an object whose generate has not run.       *)
(***************************************************************************)
DTypes == {BINARY32, BINARY64}

\* Arguments of get_model_output.  The scales are 0.0, 1.0, 7.5 and -2.0; the
\* two estimates hold -1.0, 0.0, 1.5, 0.3, 16777218.0 and 1.0 in the
\* tensors' dtype, each in a rotation of its own.
ScaleValues == {FInt(0), FInt(1), FRatio(15, 2), FInt(-2)}
EstimateElements(p) ==
  <<FCast(FInt(-1), p), FZero(p), FCast(FRatio(3, 2), p), FCast(FDec(3, 1), p),
    FCast(FInt(16777218), p), FCast(FInt(1), p)>>
EstimateTensor(p, o) ==
  [k \in 1..TensorLen |-> EstimateElements(p)[((k + o) % Len(EstimateElements(p))) + 1]]
EstimateTensors(p) == {EstimateTensor(p, o) : o \in 1..Len(EstimateElements(p))}
GuidanceArguments ==
  UNION {[scale : ScaleValues, unconditional : EstimateTensors(p),
          conditional : EstimateTensors(p)] : p \in DTypes}

\* Arguments of get_x_prev_and_pred_x0.  The coefficients are entries of the
\* alpha table (those of timesteps 2, 320 and 999), the 1.0 that alphas_prev
\* starts with, and 25 / 169; the tensors hold -1.0, 1.5 and 0.3 in the
\* tensor's dtype, in rotation.
Float(p) == FDec(p[1], p[2])
StepTimesteps == {2, 320, 999}
AlphaValues ==
  {Float(ALPHAS_CUMPROD[t + 1]) : t \in StepTimesteps} \cup {Float(ONE), FRatio(25, 169)}
StepElements(p) == <<FCast(FInt(-1), p), FCast(FRatio(3, 2), p), FCast(FDec(3, 1), p)>>
StepTensor(p, o) == [k \in 1..TensorLen |-> StepElements(p)[((k + o) % 3) + 1]]
FZeroTensor(p) == [k \in 1..TensorLen |-> FZero(p)]
StepArguments ==
  UNION {[x : {StepTensor(p, o) : o \in 0..2},
          e_t : {FZeroTensor(p), StepTensor(p, 1)},
          a_t : AlphaValues, a_prev : AlphaValues] : p \in DTypes}

InitIdle == InitRun({<<>>}, {25}, {FRatio(15, 2)}, {1})

\* get_model_output(latent, t, context, unconditional_context, scale) on a
\* constructed object; unconditional and conditional are what the noise
\* predictor returns on its first and on its second call
InitGuidance ==
  /\ InitIdle
  /\ \E arg \in GuidanceArguments, t \in {1, 501} :
       fn = [name |-> "get_model_output",
             latent |-> Tensor("argument", 0, "latent"),
             t |-> t,
             context |-> Tensor("argument", 0, "context"),
             unconditional_context |-> Tensor("argument", 0, "unconditional_context"),
             scale |-> arg.scale,
             unconditional |-> arg.unconditional, conditional |-> arg.conditional,
             t_emb |-> <<>>, unconditional_call |-> NoArgs, conditional_call |-> NoArgs,
             done |-> FALSE, out |-> <<>>]

\* get_model_output, lines 49-58: the repeated embedding of t, the two
\* noise-predictor calls on it and on the same latent, the return expression
ApplyGuidance ==
  /\ fn.name = "get_model_output" /\ ~fn.done
  /\ LET emb == Repeat(TimestepEmbedding(fn.t, DEFAULT_DIM, DEFAULT_MAX_PERIOD),
                       batch_size)
     IN  fn' = [fn EXCEPT
                  !.t_emb = emb,
                  !.unconditional_call =
                     [latent |-> fn.latent, t_emb |-> emb,
                      context |-> fn.unconditional_context],
                  !.conditional_call =
                     [latent |-> fn.latent, t_emb |-> emb, context |-> fn.context],
                  !.done = TRUE,
                  !.out = GuidedEstimate(fn.unconditional, fn.conditional, fn.scale)]
  /\ calls' = calls \o
       <<[fn |-> "diffusion_model", index |-> index, arg |-> fn.latent],
         [fn |-> "diffusion_model", index |-> index, arg |-> fn.latent]>>
  /\ UNCHANGED <<pc, promptVars, contextVars, scheduleVars, latent, loopVars,
                 outputVars, stepVars, decoded, image, error>>

SpecGuidance == InitGuidance /\ [][ApplyGuidance]_vars

InitStep ==
  /\ InitIdle
  /\ \E arg \in StepArguments :
       fn = [name |-> "get_x_prev_and_pred_x0", x |-> arg.x, e_t |-> arg.e_t,
             index |-> 0, a_t |-> arg.a_t, a_prev |-> arg.a_prev,
             temperature |-> FInt(1), done |-> FALSE, out |-> <<>>]

\* get_x_prev_and_pred_x0 applied to its arguments; line 67 calls the sampler
ApplyStep ==
  /\ fn.name = "get_x_prev_and_pred_x0" /\ ~fn.done
  /\ fn' = [fn EXCEPT !.done = TRUE,
                      !.out = GetXPrevAndPredX0(fn.x, fn.e_t, fn.index, fn.a_t,
                                                fn.a_prev, fn.temperature)]
  /\ calls' = Append(calls, [fn |-> "random_normal", index |-> fn.index,
                              arg |-> <<Len(fn.x)>>])
  /\ UNCHANGED <<pc, promptVars, contextVars, scheduleVars, latent, loopVars,
                 outputVars, stepVars, decoded, image, error>>

SpecStep == InitStep /\ [][ApplyStep]_vars

\* Exact arithmetic on the values floats stand for: a dyadic number is
\* [s, m, e], (-1)^s * m * 2^e with m a natural of any size
Dyadic(x) == [s |-> x.s, m |-> x.m, e |-> x.e]
DInt(n) == [s |-> IF n < 0 THEN 1 ELSE 0, m |-> BFromInt(Abs(n)), e |-> 0]
DAbs(a) == [a EXCEPT !.s = 0]
DNeg(a) == IF a.m = <<>> THEN a ELSE [a EXCEPT !.s = 1 - a.s]
DMul(a, b) ==
  IF a.m = <<>> \/ b.m = <<>> THEN [s |-> 0, m |-> <<>>, e |-> 0]
  ELSE [s |-> (a.s + b.s) % 2, m |-> BMul(a.m, b.m), e |-> a.e + b.e]
DAdd(a, b) ==
  IF a.m = <<>> THEN b
  ELSE IF b.m = <<>> THEN a
  ELSE LET e == IF a.e < b.e THEN a.e ELSE b.e
           x == BShl(a.m, a.e - e)
           y == BShl(b.m, b.e - e)
           c == BCmp(x, y)
       IN  IF a.s = b.s THEN [s |-> a.s, m |-> BAdd(x, y), e |-> e]
           ELSE IF c = 0 THEN [s |-> 0, m |-> <<>>, e |-> 0]
           ELSE IF c > 0 THEN [s |-> a.s, m |-> BSub(x, y), e |-> e]
           ELSE [s |-> b.s, m |-> BSub(y, x), e |-> e]
DSub(a, b) == DAdd(a, DNeg(b))
\* a * 2^k
DShift(a, k) == IF a.m = <<>> THEN a ELSE [a EXCEPT !.e = a.e + k]
\* a <= b
DLeq(a, b) == LET d == DSub(b, a) IN d.m = <<>> \/ d.s = 0
DMax(a, b) == IF DLeq(a, b) THEN b ELSE a

\* C7 (as claimed): the guided estimate is unconditional + scale *
\* (conditional - unconditional); it equals the conditional estimate when
\* scale = 1.0 and the unconditional estimate when scale = 0.0.  Checked
\* under SpecGuidance.
C7_GuidanceAffine ==
  fn.done =>
    /\ fn.out = FTAdd(fn.unconditional,
                      FTScale(fn.scale, FTSub(fn.conditional, fn.unconditional)))
    /\ fn.scale = FInt(1) => fn.out = fn.conditional
    /\ fn.scale = FInt(0) => fn.out = fn.unconditional

\* C7 (amended): the guided estimate g is u + scale * (c - u) computed in the
\* tensors' floating point, rounded after the subtraction, the product and
\* the sum: with E the exact value of u + scale * (c - u) and p the
\* precision of the dtype, |g - E| <= 2^-p * (|E| + 3 * |scale * (c - u)|)
\* element by element.  For scale = 0.0 g is u exactly; for scale = 1.0 g is
\* c up to rounding, |g - c| <= 2^-(p-2) * max(|u|, |c|).  Checked under
\* SpecGuidance.
C7_GuidanceUpToRounding ==
  fn.done =>
    /\ Len(fn.out) = Len(fn.unconditional)
    /\ \A k \in 1..Len(fn.out) :
         LET p == fn.unconditional[k].p
             u == Dyadic(fn.unconditional[k])
             c == Dyadic(fn.conditional[k])
             g == Dyadic(fn.out[k])
             move == DMul(Dyadic(FCast(fn.scale, p)), DSub(c, u))
             exact == DAdd(u, move)
         IN  /\ fn.out[k].p = p
             /\ DLeq(DAbs(DSub(g, exact)),
                     DShift(DAdd(DAbs(exact), DMul(DInt(3), DAbs(move))), -p))
             /\ fn.scale = FInt(1) =>
                  DLeq(DAbs(DSub(g, c)), DShift(DMax(DAbs(u), DAbs(c)), -(p - 2)))
    /\ fn.scale = FInt(0) => fn.out = fn.unconditional

\* float32 estimates starting with u = 0.3 and c = -1.0, scale 1.0: the
\* result starts with -0.99999994, that is -(2^24 - 1) / 2^24, not with c
C7_Witness ==
  /\ fn.done /\ fn.scale = FInt(1)
  /\ fn.unconditional[1] = FCast(FDec(3, 1), BINARY32)
  /\ fn.conditional[1] = FCast(FInt(-1), BINARY32)
  /\ fn.out[1] = [s |-> 1, m |-> BSub(BShl(<<1>>, BINARY32), <<1>>),
                  e |-> -BINARY32, p |-> BINARY32]
  /\ fn.out # fn.conditional

\* The step's case of C9: applied with a_t == a_prev and an all-zero e_t
StepOnZeroNoise ==
  /\ fn.done /\ fn.a_t = fn.a_prev
  /\ \A k \in 1..Len(fn.e_t) : IsZero(fn.e_t[k])

\* | n * 2^e - |x| | <= |x| / 2^bits, compared exactly
RelClose(n, e, x, bits) ==
  LET lo == IF e < x.e THEN e ELSE x.e
      a == BShl(n, e - lo)
      b == BShl(x.m, x.e - lo)
      diff == IF BCmp(a, b) >= 0 THEN BSub(a, b) ELSE BSub(b, a)
  IN  BCmp(BShl(diff, bits), b) <= 0

\* y is x up to a relative difference of 2^-bits
WithinRounding(y, x, bits) ==
  IF IsZero(x) THEN IsZero(y)
  ELSE ~IsZero(y) /\ y.s = x.s /\ RelClose(y.m, y.e, x, bits)

\* q is x / c up to one rounding: |q * c - x| <= |x| / 2^p, for c > 0
IsRoundedQuotient(q, x, c) ==
  IF IsZero(x) THEN IsZero(q)
  ELSE ~IsZero(q) /\ q.s = x.s /\ RelClose(BMul(q.m, c.m), q.e + c.e, x, x.p)

\* C9 (as claimed): with a_t == a_prev and an all-zero noise estimate the
\* step returns x_prev equal to the latent it was given, and pred_x0 equal
\* to latent / sqrt(a_t).  Checked under SpecStep.
C9_StepIdentityOnZeroNoise ==
  StepOnZeroNoise =>
    /\ fn.out.x_prev = fn.x
    /\ fn.out.pred_x0 = FTDivide(fn.x, FSqrt(fn.a_t))

\* C9 (amended): with a_t == a_prev and an all-zero noise estimate, pred_x0
\* is the rounded quotient latent / sqrt(a_t), and x_prev is the latent up
\* to the rounding of that division and of the multiplication by
\* sqrt(a_prev): each element has the latent's sign and differs from it by
\* at most 2^-(p-1) of its magnitude, p the precision of the dtype (2^-23
\* for float32, 2^-52 for float64); for a_t = 1.0 both results are the
\* latent exactly.  Checked under SpecStep.
C9_StepIdentityUpToRounding ==
  StepOnZeroNoise =>
    /\ fn.out.pred_x0 = FTDivide(fn.x, FSqrt(fn.a_t))
    /\ Len(fn.out.x_prev) = Len(fn.x)
    /\ \A k \in 1..Len(fn.x) :
         /\ fn.out.x_prev[k].p = fn.x[k].p
         /\ WithinRounding(fn.out.x_prev[k], fn.x[k], fn.x[k].p - 1)
         /\ IsRoundedQuotient(fn.out.pred_x0[k], fn.x[k],
                              FCast(FSqrt(fn.a_t), fn.x[k].p))
    /\ fn.a_t = Float(ONE) => (fn.out.x_prev = fn.x /\ fn.out.pred_x0 = fn.x)

\* float64 latent starting with -1.0 and a_t = a_prev = 0.9974381 (the
\* table's entry for timestep 2): x_prev starts with -0.9999999999999999,
\* that is -(2^53 - 1) / 2^53
C9_Witness ==
  /\ StepOnZeroNoise
  /\ fn.a_t = Float(ALPHAS_CUMPROD[3])
  /\ fn.x[1] = FInt(-1)
  /\ fn.out.x_prev[1] = [s |-> 1, m |-> BSub(BShl(<<1>>, BINARY64), <<1>>),
                         e |-> -BINARY64, p |-> BINARY64]
  /\ fn.out.x_prev # fn.x

\* C11 (as claimed): when the schedule built from n_steps is empty, generate
\* ends in an error; the decoder is not called and no image is returned.
\* Checked under Spec.
C11_EmptyScheduleRaises ==
  (PastSchedule /\ timesteps = <<>>) =>
    /\ pc = "raised" /\ error # ""
    /\ CallsOf("decoder") = {}
    /\ image = NoTensor

(***************************************************************************)
(* timestep_embedding on its own, for dim in 2 .. MaxDim (half >= 1).      *)
(***************************************************************************)
InitEmbedding ==
  /\ InitIdle
  /\ fn \in [name : {"timestep_embedding"}, timesteps : 0..MaxEmbedT,
             dim : 2..MaxDim, max_period : {DEFAULT_MAX_PERIOD},
             done : {FALSE}, raised : {FALSE}, out : {<<>>}]

\* timestep_embedding, lines 37-44: no path of it raises on the parity of dim
ApplyEmbedding ==
  /\ fn.name = "timestep_embedding" /\ ~fn.done
  /\ fn' = [fn EXCEPT !.done = TRUE,
                      !.out = TimestepEmbedding(fn.timesteps, fn.dim, fn.max_period)]
  /\ UNCHANGED <<pc, promptVars, contextVars, scheduleVars, latent, loopVars,
                 outputVars, stepVars, decoded, image, calls, error>>

SpecEmbedding == InitEmbedding /\ [][ApplyEmbedding]_vars

\* C12 (as claimed): for an even dim the embedding has exactly dim entries,
\* dim/2 cosines followed by dim/2 sines; for an odd dim the call fails
\* instead of returning a vector.  Checked under SpecEmbedding.
C12_EmbeddingLengthOrError ==
  fn.done =>
    IF fn.dim % 2 = 0
      THEN /\ ~fn.raised
           /\ Len(fn.out) = fn.dim
           /\ \A i \in 1..fn.dim :
                fn.out[i][1] = IF 2 * i <= fn.dim THEN "cos" ELSE "sin"
      ELSE fn.raised /\ fn.out = <<>>

=============================================================================
